---- MODULE Spec2Model ----
(***************************************************************************)
(* Weather Chimes: the control loop of weather_chimes_code.py (four        *)
(* cycle/offset tasks polled from one while-loop) and the weather store of *)
(* WeatherChimesWiFi (update_local_time, update_weather).                   *)
(*                                                                         *)
(* corr_wifi is the WeatherChimesWiFi of "weather_chimes_wifi              *)
(* openweather.py", the variant that has every property the main loop      *)
(* reads (temperature, humidity, wind_direction, wind_gusts, description); *)
(* weather_chimes_wifi.py stores the wind speed alone, along the same      *)
(* request/response path.                                                  *)
(*                                                                         *)
(* Units: the clock is whole seconds (time.time() of CircuitPython);       *)
(* wind speeds reported by the weather service are in tenths of a mph      *)
(* before round(x, 0) and in whole mph after it; temperatures are tenths   *)
(* of a degree; the outputs of map_range are thousandths (0.6 is 600).     *)
(***************************************************************************)
EXTENDS Integers, Sequences, FiniteSets, TLC

VARIABLES
    pc,               \* position of the program
    error,            \* the exception that ended the program, or "none"
    now,              \* the real-time clock (rtc.RTC), whole seconds
    current_time,     \* the loop's reading of the clock (line 157)
    task_state,       \* task_0_state .. task_3_state
    led,              \* led.value
    pixel,            \* pixel[0]
    wind_speed_color, \* the global bound by the colour loop (lines 233-235)
    note_amplitude,   \* thousandths
    weather,          \* the _weather_* attributes of corr_wifi
    speeds,           \* environment: wind speeds the service may report (tenths)
    clock_lo,         \* environment: first clock value of the modelled window
    clock_hi,         \* environment: last clock value of the modelled window
    iters,            \* history: loop iterations started (saturating)
    ran,              \* history: ran[i], body of task i ran in this iteration
    win,              \* history: cycle window of the latest tick task i evaluated
    runs,             \* history: body runs of task i within window win[i]
    runT,             \* history: timestamp of the latest body run of task i
    runN,             \* history: body runs of task i at timestamp runT[i]
    monotone,         \* history: no tick has read a timestamp below its predecessor
    last_fetch,       \* history: outcome of the latest update_weather
    scale_len,        \* len(chime.scale)
    play_count,       \* range(random.randrange(number_to_play)) of the gesture
    count,            \* notes struck so far in the gesture
    struck,           \* history: the first MaxTrace scale positions struck
    gesture_end,      \* history: <<clock>> when the music body last ended, or <<>>
    gesture_gap,      \* history: <<seconds>> from the previous gesture's end to the
                      \*          start of the gesture of this iteration, or <<>>
    music_read,       \* history: <<wind speed, amplitude>> the music body of this
                      \*          iteration read, or <<>>
    at_tick           \* history: task_state when this iteration read the clock

vars == <<pc, error, now, current_time, task_state, led, pixel, wind_speed_color,
          note_amplitude, weather, speeds, clock_lo, clock_hi, iters, ran, win,
          runs, runT, runN, monotone, last_fetch, scale_len, play_count, count,
          struck, gesture_end, gesture_gap, music_read, at_tick>>

schedVars == <<current_time, task_state, iters, ran, win, runs, runT, runN, monotone>>
musicVars == <<scale_len, play_count, count, struck>>
envVars == <<speeds, clock_lo, clock_hi>>
paceVars == <<gesture_end, gesture_gap, music_read, at_tick>>

----------------------------------------------------------------------------
(* Bounds of the model *)

\* the clock window of Spec starts Lead seconds before TASK_3_OFFSET
Lead == 5
\* and is Horizon seconds long
Horizon == 7
\* longest blocking (whole seconds) of one task body that is explored
MaxBlock == 3
\* history counters saturate here
MaxRuns == 2
IterCap == 2
\* largest wind speed (mph) of the wide wind domain
MaxSpeed == 101
\* scale lengths 1..MaxScaleLen
MaxScaleLen == 4
\* number of struck positions recorded
MaxTrace == 3

----------------------------------------------------------------------------
(* Program constants *)

FIRST_RUN == "first_run"
\* the not-due branch putting the task back in first_run
IDLE_FIRST_RUN == FIRST_RUN
IDLE == "idle"
DONE == "done"

\* WindColors.NOAA: (wind speed minimum, colour); colours in decimal
NOAA ==
    << <<0, 26060>>,      \* 0x0065CC
       <<1, 3368447>>,    \* 0x3365FF
       <<4, 3394815>>,    \* 0x33CCFF
       <<8, 65535>>,      \* 0x00FFFF
       <<13, 3407820>>,   \* 0x33FFCC
       <<19, 52224>>,     \* 0x00CC00
       <<25, 130816>>,    \* 0x01FF00
       <<32, 16777164>>,  \* 0xFFFFCC
       <<39, 16776960>>,  \* 0xFFFF00
       <<47, 16763493>>,  \* 0xFFCC65
       <<55, 16751104>>,  \* 0xFF9A00
       <<64, 16737637>>,  \* 0xFF6565
       <<75, 16737791>> >> \* 0xFF65FF

YELLOW == 16776960
\* the pixel left on its start-up colour
BLACK_YELLOW == YELLOW
BLACK == 0

TASK_0_CYCLE == 2
TASK_0_OFFSET == 0
TASK_1_CYCLE == 60
TASK_1_OFFSET == 0
\* the music task on the heartbeat's cycle
TASK_2_CYCLE_HEARTBEAT == TASK_0_CYCLE
TASK_2_CYCLE == 3
TASK_2_OFFSET == 0
TASK_3_CYCLE == 1200
TASK_3_OFFSET == 720

Tasks == 0..3

TASK_CYCLE(i) ==
    CASE i = 0 -> TASK_0_CYCLE
      [] i = 1 -> TASK_1_CYCLE
      [] i = 2 -> TASK_2_CYCLE
      [] i = 3 -> TASK_3_CYCLE

TASK_OFFSET(i) ==
    CASE i = 0 -> TASK_0_OFFSET
      [] i = 1 -> TASK_1_OFFSET
      [] i = 2 -> TASK_2_OFFSET
      [] i = 3 -> TASK_3_OFFSET

\* the name wind_speed_color before the colour loop has ever assigned it
Unbound == -1

\* response = None
None == <<>>

\* corr_wifi before update_weather has ever stored an attribute
NoAttributes ==
    [temp |-> Unbound, humid |-> Unbound, speed |-> Unbound, gusts |-> Unbound,
     deg |-> Unbound, desc |-> ""]

----------------------------------------------------------------------------
(* Pure functions *)

Min(a, b) == IF a <= b THEN a ELSE b
Max(a, b) == IF a >= b THEN a ELSE b

\* simpleio.map_range, outputs in thousandths: linear map of x from
\* [in_min, in_max] to [out_min, out_max], constrained to the output range
map_range(x, in_min, in_max, out_min, out_max) ==
    LET in_range == in_max - in_min
        in_delta == x - in_min
        mapped == IF in_range # 0
                    THEN out_min + (in_delta * (out_max - out_min)) \div in_range
                    ELSE IF in_delta # 0
                           THEN out_min + in_delta * (out_max - out_min)
                           ELSE out_min + (out_max - out_min) \div 2
    IN  IF out_min <= out_max
          THEN Max(Min(mapped, out_max), out_min)
          ELSE Min(Max(mapped, out_max), out_min)

\* round(x, 0) of a value given in tenths: nearest integer, halves to even
Round0(x10) ==
    LET q == x10 \div 10
        r == x10 % 10
    IN  IF r < 5 THEN q
        ELSE IF r > 5 THEN q + 1
        ELSE IF q % 2 = 0 THEN q ELSE q + 1

\* the JSON body the service returns when it reports wind speed x10 (tenths);
\* the "gust" key is absent in some reports
Json(x10) ==
    [temp |-> 500 + (x10 % 7),
     humidity |-> 400 + (x10 % 3),
     speed |-> x10,
     gust |-> IF (x10 \div 10) % 2 = 0 THEN <<>> ELSE <<x10 + 50>>,
     deg |-> (x10 * 9) % 3600,
     main |-> IF x10 < 100 THEN "Clear" ELSE "Wind",
     description |-> IF x10 < 100 THEN "clear sky" ELSE "windy"]

Responses == {<<Json(x)>> : x \in speeds}

\* the amplitude left at the value for no wind
AmplitudeCalm(wind_speed) == map_range(0, 0, 100, 600, 1000)

\* the amplitude mapped over the input domain of number_to_play, [0, 50]
AmplitudeOver50(wind_speed) == map_range(wind_speed, 0, 50, 600, 1000)

\* note_amplitude = map_range(corr_wifi.wind_speed, 0, 100, 0.6, 1.0)
Amplitude(wind_speed) == map_range(wind_speed, 0, 100, 600, 1000)

\* the colour loop that stops at the first entry that qualifies
RECURSIVE ColorLoopBreak(_, _, _)
ColorLoopBreak(k, wind_speed, c) ==
    IF k > Len(NOAA) THEN c
    ELSE IF wind_speed >= NOAA[k][1] THEN NOAA[k][2]
    ELSE ColorLoopBreak(k + 1, wind_speed, c)

WindSpeedColorBreak(wind_speed, c) == ColorLoopBreak(1, wind_speed, c)

\* for _, color in enumerate(WindColors.NOAA):
\*     if corr_wifi.wind_speed >= color[0]: wind_speed_color = color[1]
RECURSIVE ColorLoop(_, _, _)
ColorLoop(k, wind_speed, c) ==
    IF k > Len(NOAA) THEN c
    ELSE ColorLoop(k + 1, wind_speed,
                   IF wind_speed >= NOAA[k][1] THEN NOAA[k][2] ELSE c)

\* the binding of wind_speed_color after the loop, c being its binding before
WindSpeedColor(wind_speed, c) == ColorLoop(1, wind_speed, c)

\* update_weather that clears the stored wind on a failed request
update_weather_clear(w, response) ==
    IF response = None
      THEN [w EXCEPT !.speed = 0, !.gusts = 0]
      ELSE LET json == response[1]
           IN  [temp |-> json.temp,
                humid |-> json.humidity,
                speed |-> Round0(json.speed),
                gusts |-> IF json.gust = <<>> THEN 0 ELSE Round0(json.gust[1]),
                deg |-> Round0(json.deg),
                desc |-> json.main \o ": " \o json.description]

\* WeatherChimesWiFi.update_weather (wifi_mode): the attributes after the call
update_weather(w, response) ==
    IF response = None
      THEN w
      ELSE LET json == response[1]
           IN  [temp |-> json.temp,
                humid |-> json.humidity,
                speed |-> Round0(json.speed),
                gusts |-> IF json.gust = <<>> THEN 0 ELSE Round0(json.gust[1]),
                deg |-> Round0(json.deg),
                desc |-> json.main \o ": " \o json.description]

\* int(map_range(corr_wifi.wind_speed, 0, 50, 5, 30))
number_to_play(wind_speed) == map_range(wind_speed, 0, 50, 5000, 30000) \div 1000

\* map_range(corr_wifi.wind_speed, 0, 50, 0.6, 0), in milliseconds
note_sleep(wind_speed) == map_range(wind_speed, 0, 50, 600, 0)

\* the music body reading the gusts in place of the wind speed
MusicWindGusts(w) == w.gusts

\* corr_wifi.wind_speed as the music body reads it (lines 196, 201)
MusicWind(w) == w.speed

\* random.randrange(n) that may also return n
randrange_incl(n) == 0..n

\* random.randrange(n)
randrange(n) == 0..(n - 1)


\* random.choice(chime.scale) that may also pick the position past the end
choice_past_end(n) == 0..n

\* random.choice(chime.scale), as a scale position
choice(n) == 0..(n - 1)

\* the printd(f"...{self._weather_...}") lines that end update_weather read
\* every attribute: AttributeError when none was ever stored
update_weather_raises(w) == w = NoAttributes

\* the values the clock may hold after update_local_time: unchanged when the
\* NTP request fails, else the NTP time (any value of the window)
update_local_time(t) == {t} \cup (clock_lo..clock_hi)

\* whole seconds a body may block: between dmin and dmax, within the bounds
Blocking(dmin, dmax) ==
    {d \in dmin..Min(dmax, MaxBlock) : now + d <= clock_hi}

\* the due test reading the clock again in place of the tick's timestamp
DueNow(i) ==
    \/ now % TASK_CYCLE(i) = TASK_OFFSET(i)
    \/ task_state[i] = FIRST_RUN

\* the due test that ignores the offset
DueOffsetIgnored(i) ==
    \/ current_time % TASK_CYCLE(i) = 0
    \/ task_state[i] = FIRST_RUN

\* the due test that leaves out the first run
DueNoFirstRun(i) == current_time % TASK_CYCLE(i) = TASK_OFFSET(i)

\* current_time % TASK_n_CYCLE == TASK_n_OFFSET or task_n_state == State.FIRST_RUN
Due(i) ==
    \/ current_time % TASK_CYCLE(i) = TASK_OFFSET(i)
    \/ task_state[i] = FIRST_RUN

\* the latch test of an if/elif chain: at most one body in an iteration
EligibleExclusive(i) ==
    /\ task_state[i] \in {IDLE, FIRST_RUN}
    /\ \A j \in Tasks : ~ran[j]

\* the latch test that leaves out the first run
EligibleIdleOnly(i) == task_state[i] = IDLE

\* the latch test that lets every state through
EligibleAlways(i) == task_state[i] \in {IDLE, FIRST_RUN, DONE}

\* task_n_state in (State.IDLE, State.FIRST_RUN)
Eligible(i) == task_state[i] \in {IDLE, FIRST_RUN}

\* the cycle window [kC+O, (k+1)C+O) of task i that holds timestamp t, as k
Window(i, t) == (t - TASK_OFFSET(i)) \div TASK_CYCLE(i)

\* history of one evaluation of task i on this tick; running: its body runs
Record(i, running) ==
    LET t == current_time
        w == Window(i, t)
        r == IF running THEN 1 ELSE 0
    IN  /\ ran' = [ran EXCEPT ![i] = running]
        /\ win' = [win EXCEPT ![i] = w]
        /\ runs' = [runs EXCEPT
                      ![i] = Min(MaxRuns, (IF win[i] = w THEN runs[i] ELSE 0) + r)]
        /\ runT' = IF running THEN [runT EXCEPT ![i] = t] ELSE runT
        /\ runN' = IF running
                     THEN [runN EXCEPT
                             ![i] = Min(MaxRuns,
                                        (IF runT[i] = t THEN runN[i] ELSE 0) + 1)]
                     ELSE runN

----------------------------------------------------------------------------
(* Initial states *)

InitProgram ==
    /\ pc = "wifi_init"
    /\ error = "none"
    /\ now = clock_lo
    /\ current_time = 0
    /\ task_state = [i \in Tasks |-> FIRST_RUN]
    /\ led = TRUE
    /\ pixel = YELLOW
    /\ wind_speed_color = Unbound
    /\ note_amplitude = 0
    /\ weather = NoAttributes
    /\ iters = 0
    /\ ran = [i \in Tasks |-> FALSE]
    /\ win = [i \in Tasks |-> 0]
    /\ runs = [i \in Tasks |-> 0]
    /\ runT = [i \in Tasks |-> -1]
    /\ runN = [i \in Tasks |-> 0]
    /\ monotone = TRUE
    /\ last_fetch = "none"
    /\ play_count = 0
    /\ count = 0
    /\ struck = <<>>
    /\ gesture_end = <<>>
    /\ gesture_gap = <<>>
    /\ music_read = <<>>
    /\ at_tick = [i \in Tasks |-> FIRST_RUN]

\* wind speeds (tenths of a mph) of the scheduler's specification
SchedSpeeds == {0, 35, 250, 600}

\* wind speeds (tenths) of the wide domain: every whole mph from -1 to
\* MaxSpeed, and three halves for round()
WideSpeeds == {10 * s : s \in (-1)..MaxSpeed} \cup {5, 15, 25}

\* wind speeds (tenths) of the gesture's specification
MusicSpeeds == {0, 20, 250, 500}

\* the program from power-up, the clock within Horizon seconds around the
\* due time of task 3, the service reporting speeds >= 0
Init ==
    /\ speeds = SchedSpeeds
    /\ clock_lo = TASK_3_OFFSET - Lead
    /\ clock_hi = TASK_3_OFFSET - Lead + Horizon
    /\ scale_len = MaxScaleLen
    /\ InitProgram

\* the program from power-up, the clock within one second of the due time
\* of task 3, the service reporting any speed of the wide domain
InitWind ==
    /\ speeds = WideSpeeds
    /\ clock_lo = TASK_3_OFFSET - 1
    /\ clock_hi = TASK_3_OFFSET
    /\ scale_len = MaxScaleLen
    /\ InitProgram

----------------------------------------------------------------------------
(* Start-up *)

\* WeatherChimesWiFi.__init__ (wifi_mode): update_local_time, then
\* update_weather.  A failed wifi.radio.connect resets the board, which
\* starts the program again from its initial state.
WifiInit ==
    /\ pc = "wifi_init"
    /\ now' \in update_local_time(now)
    /\ \E response \in Responses \cup {None} :
         /\ weather' = update_weather(weather, response)
         /\ last_fetch' = IF response = None THEN "fail" ELSE "ok"
         /\ IF update_weather_raises(weather')
              THEN pc' = "crashed" /\ error' = "AttributeError"
              ELSE pc' = "main_init" /\ error' = error
    /\ UNCHANGED <<led, pixel, wind_speed_color, note_amplitude>>
    /\ UNCHANGED <<schedVars, musicVars, envVars, paceVars>>

\* the module level of weather_chimes_code.py after corr_wifi is built: task
\* states, the cleared pixel, the first note_amplitude
MainInit ==
    /\ pc = "main_init"
    /\ task_state' = [i \in Tasks |-> FIRST_RUN]
    /\ pixel' = BLACK
    /\ note_amplitude' = Amplitude(weather.speed)
    /\ pc' = "tick"
    /\ UNCHANGED <<error, now, led, wind_speed_color, weather, last_fetch>>
    /\ UNCHANGED <<current_time, iters, ran, win, runs, runT, runN, monotone>>
    /\ UNCHANGED <<musicVars, envVars, paceVars>>

----------------------------------------------------------------------------
(* The control loop *)

\* while True: current_time = time.time()
Tick ==
    /\ pc = "tick"
    /\ \E d \in Blocking(0, 1) :
         /\ now' = now + d
         /\ current_time' = now + d
         /\ monotone' = (monotone /\ (iters = 0 \/ now + d >= current_time))
    /\ iters' = Min(IterCap, iters + 1)
    /\ ran' = [i \in Tasks |-> FALSE]
    /\ at_tick' = task_state
    /\ gesture_gap' = <<>>
    /\ pc' = "task0"
    /\ UNCHANGED <<error, task_state, led, pixel, wind_speed_color, note_amplitude,
                   weather, win, runs, runT, runN, last_fetch>>
    /\ UNCHANGED <<musicVars, envVars, gesture_end, music_read>>

\* TASK 0 (heartbeat): flash the LED for 0.1 s
Task0 ==
    /\ pc = "task0"
    /\ IF Due(0)
         THEN IF Eligible(0)
                THEN /\ \E d \in Blocking(0, 1) : now' = now + d
                     /\ led' = FALSE
                     /\ task_state' = [task_state EXCEPT ![0] = DONE]
                     /\ Record(0, TRUE)
                ELSE /\ UNCHANGED <<now, led, task_state>>
                     /\ Record(0, FALSE)
         ELSE /\ task_state' = [task_state EXCEPT ![0] = IDLE]
              /\ UNCHANGED <<now, led>>
              /\ Record(0, FALSE)
    /\ pc' = "task1"
    /\ UNCHANGED <<error, current_time, pixel, wind_speed_color, note_amplitude,
                   weather, iters, monotone, last_fetch>>
    /\ UNCHANGED <<musicVars, envVars, paceVars>>

\* the clock-display task fetching the weather as well
Task1Refresh ==
    /\ pc = "task1"
    /\ \E response \in Responses \cup {None} :
         weather' = update_weather(weather, response)
    /\ Record(1, FALSE)
    /\ pc' = "task2"
    /\ UNCHANGED <<error, now, current_time, task_state, led, pixel,
                   wind_speed_color, note_amplitude, iters, monotone, last_fetch>>
    /\ UNCHANGED <<musicVars, envVars, paceVars>>

\* TASK 1 (display clock): print the local time
Task1 ==
    /\ pc = "task1"
    /\ IF Due(1)
         THEN IF Eligible(1)
                THEN /\ \E d \in Blocking(0, 1) : now' = now + d
                     /\ task_state' = [task_state EXCEPT ![1] = DONE]
                     /\ Record(1, TRUE)
                ELSE /\ UNCHANGED <<now, task_state>>
                     /\ Record(1, FALSE)
         ELSE /\ task_state' = [task_state EXCEPT ![1] = IDLE]
              /\ UNCHANGED now
              /\ Record(1, FALSE)
    /\ pc' = "task2"
    /\ UNCHANGED <<error, current_time, led, pixel, wind_speed_color,
                   note_amplitude, weather, iters, monotone, last_fetch>>
    /\ UNCHANGED <<musicVars, envVars, paceVars>>

\* TASK 2 (play wind-related chimes): strike n notes, sleeping one or two
\* note_sleep after each; the strikes themselves are followed in SpecMusic
Task2 ==
    /\ pc = "task2"
    /\ IF Due(2)
         THEN IF Eligible(2)
                THEN /\ \E n \in randrange(number_to_play(MusicWind(weather))) :
                          \E d \in Blocking(
                                     (n * note_sleep(MusicWind(weather))) \div 1000,
                                     (2 * n * note_sleep(MusicWind(weather)))
                                         \div 1000 + 1) :
                             /\ now' = now + d
                             /\ gesture_end' = <<now + d>>
                     /\ gesture_gap' = IF gesture_end = <<>>
                                         THEN <<>>
                                         ELSE <<now - gesture_end[1]>>
                     /\ music_read' = <<MusicWind(weather), note_amplitude>>
                     /\ task_state' = [task_state EXCEPT ![2] = DONE]
                     /\ Record(2, TRUE)
                ELSE /\ UNCHANGED <<now, task_state>>
                     /\ UNCHANGED <<gesture_end, gesture_gap, music_read>>
                     /\ Record(2, FALSE)
         ELSE /\ task_state' = [task_state EXCEPT ![2] = IDLE]
              /\ UNCHANGED now
              /\ UNCHANGED <<gesture_end, gesture_gap, music_read>>
              /\ Record(2, FALSE)
    /\ pc' = "task3"
    /\ UNCHANGED <<error, current_time, led, pixel, wind_speed_color,
                   note_amplitude, weather, iters, monotone, last_fetch>>
    /\ UNCHANGED <<musicVars, envVars, at_tick>>

\* TASK 3 (update clock and weather): update_local_time, update_weather, the
\* colour loop, pixel[0], note_amplitude, one strike.  The colour loop leaves
\* wind_speed_color unbound when no entry qualifies and it was never bound:
\* pixel[0] = wind_speed_color then raises NameError.
Task3 ==
    /\ pc = "task3"
    /\ IF Due(3)
         THEN IF Eligible(3)
                THEN /\ \/ \E d \in Blocking(0, MaxBlock) : now' = now + d
                        \/ now' \in update_local_time(now)
                     /\ \E response \in Responses \cup {None} :
                          /\ weather' = update_weather(weather, response)
                          /\ last_fetch' = IF response = None THEN "fail" ELSE "ok"
                     /\ LET c == WindSpeedColor(weather'.speed, wind_speed_color)
                        IN  IF update_weather_raises(weather')
                              THEN /\ pc' = "crashed"
                                   /\ error' = "AttributeError"
                                   /\ UNCHANGED <<wind_speed_color, pixel,
                                                  note_amplitude, task_state>>
                                   /\ Record(3, FALSE)
                            ELSE IF c = Unbound
                              THEN /\ pc' = "crashed"
                                   /\ error' = "NameError"
                                   /\ UNCHANGED <<wind_speed_color, pixel,
                                                  note_amplitude, task_state>>
                                   /\ Record(3, TRUE)
                            ELSE /\ wind_speed_color' = c
                                 /\ pixel' = c
                                 /\ note_amplitude' = Amplitude(weather'.speed)
                                 /\ task_state' = [task_state EXCEPT ![3] = DONE]
                                 /\ pc' = "tick"
                                 /\ error' = error
                                 /\ Record(3, TRUE)
                ELSE /\ UNCHANGED <<now, weather, last_fetch, wind_speed_color,
                                    pixel, note_amplitude, task_state, error>>
                     /\ pc' = "tick"
                     /\ Record(3, FALSE)
         ELSE /\ task_state' = [task_state EXCEPT ![3] = IDLE]
              /\ UNCHANGED <<now, weather, last_fetch, wind_speed_color, pixel,
                             note_amplitude, error>>
              /\ pc' = "tick"
              /\ Record(3, FALSE)
    /\ music_read' = <<>>
    /\ UNCHANGED <<current_time, led, iters, monotone>>
    /\ UNCHANGED <<musicVars, envVars, gesture_end, gesture_gap, at_tick>>

Next ==
    \/ WifiInit
    \/ MainInit
    \/ Tick
    \/ Task0
    \/ Task1
    \/ Task2
    \/ Task3

Spec == Init /\ [][Next]_vars

SpecWind == InitWind /\ [][Next]_vars

----------------------------------------------------------------------------
(* One invocation of the music task's body, strike by strike (lines 195-202) *)

\* the music task about to run its body: a stored wind speed, a scale
InitMusic ==
    /\ speeds = MusicSpeeds
    /\ clock_lo = TASK_3_OFFSET
    /\ clock_hi = TASK_3_OFFSET
    /\ scale_len \in 1..MaxScaleLen
    /\ \E x \in MusicSpeeds :
         /\ weather = update_weather(NoAttributes, <<Json(x)>>)
         /\ note_amplitude = Amplitude(Round0(x))
    /\ pc = "play"
    /\ error = "none"
    /\ now = clock_lo
    /\ current_time = clock_lo
    /\ task_state = [i \in Tasks |-> IF i = 2 THEN IDLE ELSE DONE]
    /\ led = FALSE
    /\ pixel = BLACK
    /\ wind_speed_color = Unbound
    /\ iters = 1
    /\ ran = [i \in Tasks |-> FALSE]
    /\ win = [i \in Tasks |-> 0]
    /\ runs = [i \in Tasks |-> 0]
    /\ runT = [i \in Tasks |-> -1]
    /\ runN = [i \in Tasks |-> 0]
    /\ monotone = TRUE
    /\ last_fetch = "ok"
    /\ play_count = 0
    /\ count = 0
    /\ struck = <<>>
    /\ gesture_end = <<>>
    /\ gesture_gap = <<>>
    /\ music_read = <<>>
    /\ at_tick = [i \in Tasks |-> FIRST_RUN]

\* number_to_play = int(map_range(...)); range(random.randrange(number_to_play))
PlayStart ==
    /\ pc \in {"play", "played"}
    /\ play_count' \in randrange(number_to_play(MusicWind(weather)))
    /\ count' = 0
    /\ struck' = <<>>
    /\ pc' = "note"
    /\ UNCHANGED <<error, now, led, pixel, wind_speed_color, note_amplitude,
                   weather, last_fetch, scale_len>>
    /\ UNCHANGED <<schedVars, envVars, paceVars>>

\* chime.strike(random.choice(chime.scale), note_amplitude); time.sleep(...)
PlayStrike ==
    /\ pc = "note"
    /\ count < play_count
    /\ \E index \in choice(scale_len) :
         struck' = IF Len(struck) < MaxTrace THEN Append(struck, index) ELSE struck
    /\ count' = count + 1
    /\ UNCHANGED <<pc, error, now, led, pixel, wind_speed_color, note_amplitude,
                   weather, last_fetch, scale_len, play_count>>
    /\ UNCHANGED <<schedVars, envVars, paceVars>>

\* the for loop is exhausted
PlayEnd ==
    /\ pc = "note"
    /\ count = play_count
    /\ pc' = "played"
    /\ UNCHANGED <<error, now, led, pixel, wind_speed_color, note_amplitude,
                   weather, last_fetch>>
    /\ UNCHANGED <<schedVars, musicVars, envVars, paceVars>>

NextMusic ==
    \/ PlayStart
    \/ PlayStrike
    \/ PlayEnd

SpecMusic == InitMusic /\ [][NextMusic]_vars

----------------------------------------------------------------------------
(* Properties *)

\* the program is inside the while loop
InLoop == pc \in {"tick", "task0", "task1", "task2", "task3"}

\* task i has been evaluated in the current iteration (at "tick": the
\* iteration is complete)
After(i) ==
    \/ pc = "tick" /\ iters >= 1
    \/ pc = "task1" /\ i < 1
    \/ pc = "task2" /\ i < 2
    \/ pc = "task3" /\ i < 3

\* C1: for a non-decreasing clock, every task's body has run exactly once in
\* the window [kC+O, (k+1)C+O) of every tick the task has evaluated.  (With a
\* non-decreasing clock a window whose count is 0 after a tick stays at 0:
\* its only due timestamp, kC+O, is not above that tick.)
C1_OncePerWindow ==
    \A i \in Tasks :
        (monotone /\ task_state[i] # FIRST_RUN) => runs[i] = 1

\* C2: in the first iteration every task runs its body and is done afterwards,
\* whatever current_time mod cycle is.
C2_FirstRun ==
    \A i \in Tasks :
        (iters = 1 /\ After(i)) => (ran[i] /\ task_state[i] = DONE)

C2_Witness ==
    /\ iters = 1
    /\ pc = "tick"
    /\ \A i \in Tasks :
         /\ ran[i]
         /\ task_state[i] = DONE
         /\ current_time % TASK_CYCLE(i) # TASK_OFFSET(i)

\* C3: for a non-decreasing clock, a task's body never runs twice on ticks
\* that read the same timestamp; after the first iteration it runs on due
\* timestamps only.
C3_AtMostOnce ==
    \A i \in Tasks :
        /\ monotone => runN[i] <= 1
        /\ (iters >= 2 /\ After(i) /\ ran[i])
             => current_time % TASK_CYCLE(i) = TASK_OFFSET(i)

\* a later tick reads the due timestamp the body ran on, and the body is
\* suppressed
C3_Witness ==
    \E i \in Tasks :
        /\ After(i)
        /\ iters >= 2
        /\ monotone
        /\ current_time % TASK_CYCLE(i) = TASK_OFFSET(i)
        /\ runT[i] = current_time
        /\ ~ran[i]
        /\ task_state[i] = DONE
        /\ runN[i] = 1

\* C4: the program never terminates with an error, whatever the fetch and
\* time-sync outcomes are.
C4_NeverTerminates == pc # "crashed" /\ error = "none"

\* C5: a refresh whose weather request fails leaves every stored weather
\* field as it was, and update_weather raises nothing.
C5_StaleOnFailure ==
    [][(pc = "task3" /\ ran'[3] /\ last_fetch' = "fail")
         => (weather' = weather /\ error' # "AttributeError")]_vars

C5_Witness ==
    /\ pc = "tick"
    /\ ran[3]
    /\ last_fetch = "fail"
    /\ error = "none"
    /\ weather.speed = 25
    /\ weather.desc = "Wind: windy"

\* the last table entry whose minimum is <= s
LastEntry(s) ==
    CHOOSE k \in 1..Len(NOAA) :
        /\ NOAA[k][1] <= s
        /\ \A j \in 1..Len(NOAA) : NOAA[j][1] <= s => j <= k

\* C6: after a refresh the indicator shows the colour of the last table entry
\* whose minimum speed is <= the stored wind speed s, for s >= 0: the first
\* colour at 0, the second at 3, the third at 5.
C6_ColorSelection ==
    (InLoop /\ task_state[3] # FIRST_RUN /\ weather.speed >= 0)
        => /\ pixel = NOAA[LastEntry(weather.speed)][2]
           /\ weather.speed = 0 => pixel = NOAA[1][2]
           /\ weather.speed = 3 => pixel = NOAA[2][2]
           /\ weather.speed = 5 => pixel = NOAA[3][2]

C6_Witness ==
    /\ pc = "tick"
    /\ ran[3]
    /\ weather.speed = 5
    /\ pixel = NOAA[3][2]

\* C7: a refresh with a negative stored wind speed does not fail and sets
\* the indicator to the first entry's colour.
C7_Fallback ==
    (weather.speed < 0 /\ (task_state[3] # FIRST_RUN \/ error = "NameError"))
        => (error = "none" /\ pixel = NOAA[1][2])

\* C8 as stated: the amplitude is the linear map of wind speed from [0, 50]
\* to [0.4, 1.0], clamped.
C8_AmplitudeOver50 ==
    InLoop =>
        LET s == weather.speed
        IN  note_amplitude = IF s <= 0 THEN 400
                             ELSE IF s >= 50 THEN 1000
                             ELSE 400 + 12 * s

\* C8 amended: the amplitude is the linear map of wind speed from [0, 100]
\* to [0.6, 1.0], clamped: 0.6 for s <= 0, 1.0 for s >= 100, 0.6 + 0.004 s
\* between (non-decreasing), 0.7 at 25.
C8_Amplitude ==
    InLoop =>
        LET s == weather.speed
            a == note_amplitude
        IN  /\ s <= 0 => a = 600
            /\ s >= 100 => a = 1000
            /\ (0 <= s /\ s <= 100) => a = 600 + 4 * s
            /\ s = 25 => a = 700
            /\ s = 50 => a = 800

C8_Witness ==
    /\ pc = "tick"
    /\ ran[3]
    /\ weather.speed = 25
    /\ note_amplitude = 700

\* C9 as stated: the positions struck by one invocation are the first
\* entries of a circular walk i0, i0+d, i0+2d, ... (mod L) of floor(L/2)
\* entries, d in {-1, +1}, for a scale of length L >= 2.
C9_CircularWalk ==
    (pc \in {"note", "played"} /\ scale_len >= 2)
        => /\ count <= scale_len \div 2
           /\ \E i0 \in 0..(scale_len - 1) : \E d \in {-1, 1} :
                \A k \in 1..Len(struck) :
                    struck[k] = (i0 + (k - 1) * d) % scale_len

\* C9 amended: every position struck is in [0, L), for a scale of length
\* L >= 1; the positions are drawn independently, one per strike.
C9_InRange ==
    pc \in {"note", "played"}
        => /\ \A k \in 1..Len(struck) : struck[k] \in 0..(scale_len - 1)
           /\ Len(struck) = Min(count, MaxTrace)

\* two strikes of one invocation that are not adjacent on the circle
C9_Witness ==
    /\ pc = "played"
    /\ scale_len = 4
    /\ Len(struck) >= 2
    /\ struck[1] = 0
    /\ struck[2] = 2

\* C10 as stated: 0 <= play_count <= floor(len(scale)/2).
C10_HalfScale ==
    pc \in {"note", "played"}
        => (0 <= play_count /\ play_count <= scale_len \div 2)

\* C10 amended: 0 <= play_count < 5 + floor(s/2) with the wind speed s
\* clamped to [0, 50], so play_count <= 29 whatever the scale; the strikes
\* made are play_count when the invocation ends.
C10_StrikeCount ==
    pc \in {"note", "played"}
        => /\ 0 <= count /\ count <= play_count
           /\ play_count < 5 + Min(Max(weather.speed, 0), 50) \div 2
           /\ play_count <= 29
           /\ pc = "played" => count = play_count

\* an invocation that struck nothing
C10_Witness ==
    /\ pc = "played"
    /\ play_count = 0
    /\ count = 0
    /\ struck = <<>>

----------------------------------------------------------------------------
(* Pacing of the music task *)

----------------------------------------------------------------------------
(* The stored weather and the task bodies *)

\* C12: once the control loop has started, a step changes the stored wind
\* state (speed, gusts, direction, description) only if it is the step of
\* task 3 and task 3 ran its body; the clock read and the steps of tasks 0,
\* 1 and 2 leave every field of it as it was.
C12_SingleWriter ==
    [][(InLoop /\ weather' # weather) => (pc = "task3" /\ ran'[3])]_vars

\* tasks 0, 1 and 2 have all run their bodies in an iteration after the
\* first, on a stored weather
C12_Witness ==
    /\ pc = "task3"
    /\ iters >= 2
    /\ ran[0] /\ ran[1] /\ ran[2]
    /\ weather.speed >= 0

----------------------------------------------------------------------------
(* The tick's timestamp *)

\* the due test of task i on the timestamp of this iteration, the task's
\* state as it was when the timestamp was read
DueAtTick(i) ==
    \/ current_time % TASK_CYCLE(i) = TASK_OFFSET(i)
    \/ at_tick[i] = FIRST_RUN

\* C13: the timestamp is assigned only by the clock read at the head of the
\* iteration, and what every task did in the iteration is decided by that
\* timestamp, however far an earlier body let the clock advance: the task ran
\* exactly if the timestamp was due and the task not done, and it is idle
\* afterwards exactly if the timestamp was not due.
C13_OneTimestamp ==
    /\ [][pc # "tick" => current_time' = current_time]_vars
    /\ [](\A i \in Tasks :
            After(i) => /\ ran[i] <=> (DueAtTick(i) /\ at_tick[i] # DONE)
                        /\ task_state[i] = IDLE <=> ~DueAtTick(i))

\* the heartbeat body has let the clock advance onto a multiple of 3, and
\* the music task, idle, has not run because the timestamp is no multiple of 3
C13_Witness ==
    /\ pc = "task3"
    /\ iters >= 2
    /\ ran[0]
    /\ at_tick[2] = IDLE
    /\ ~ran[2]
    /\ current_time % 3 # 0
    /\ now % 3 = 0

----------------------------------------------------------------------------
(* Tasks due on the same tick *)

\* C14: whenever two different tasks have both been evaluated in an
\* iteration whose timestamp satisfies the congruence of both, and both were
\* idle when the timestamp was read, both have run their bodies in that
\* iteration.
C14_BothRun ==
    \A i, j \in Tasks :
        ( /\ i # j
          /\ After(i) /\ After(j)
          /\ at_tick[i] = IDLE /\ at_tick[j] = IDLE
          /\ current_time % TASK_CYCLE(i) = TASK_OFFSET(i)
          /\ current_time % TASK_CYCLE(j) = TASK_OFFSET(j) )
        => (ran[i] /\ ran[j])

\* an iteration on a timestamp due for all four tasks, all idle at the clock
\* read, has ended with all four bodies run
C14_Witness ==
    /\ pc = "tick"
    /\ iters >= 2
    /\ \A i \in Tasks : at_tick[i] = IDLE /\ ran[i]
    /\ current_time = TASK_3_OFFSET

----------------------------------------------------------------------------
(* The latch *)

\* the step about to be taken is the evaluation of task i
AtTask(i) ==
    pc = CASE i = 0 -> "task0"
           [] i = 1 -> "task1"
           [] i = 2 -> "task2"
           [] i = 3 -> "task3"

\* C15: a task that is done stays done across every step except its own
\* evaluation on a timestamp that does not satisfy its congruence, which
\* makes it idle; its evaluation on a due timestamp leaves it done and does
\* not invoke the body.  (So a task meeting only due timestamps, as one of
\* cycle 1 would, does not run again.)
C15_DoneSticky ==
    [][\A i \in Tasks :
         task_state[i] = DONE =>
            IF AtTask(i)
              THEN /\ ~ran'[i]
                   /\ task_state'[i] =
                        IF current_time % TASK_CYCLE(i) = TASK_OFFSET(i)
                          THEN DONE
                          ELSE IDLE
              ELSE task_state'[i] = DONE]_vars

\* every task was done when a due timestamp was read, and none has run
C15_Witness ==
    /\ pc = "tick"
    /\ iters >= 2
    /\ current_time = TASK_3_OFFSET
    /\ \A i \in Tasks : at_tick[i] = DONE /\ task_state[i] = DONE /\ ~ran[i]

\* C16: the evaluation of a task that is idle or in first_run on a due
\* timestamp runs the body and leaves the task done; a task is done only if
\* its body has run at least once; and the evaluation of one task leaves the
\* state of every other task as it was.
C16_RunThenDone ==
    /\ [][\A i \in Tasks :
            ( /\ AtTask(i)
              /\ task_state[i] \in {IDLE, FIRST_RUN}
              /\ \/ current_time % TASK_CYCLE(i) = TASK_OFFSET(i)
                 \/ task_state[i] = FIRST_RUN )
            => (ran'[i] /\ task_state'[i] = DONE)]_vars
    /\ [](\A i \in Tasks : task_state[i] = DONE => runT[i] # -1)
    /\ [][\A i, j \in Tasks :
            (AtTask(i) /\ j # i) => task_state'[j] = task_state[j]]_vars

\* the clock-display task, idle at the clock read, has run on a due
\* timestamp and is done, next to a task that is idle and one that is done
C16_Witness ==
    /\ pc = "task2"
    /\ iters >= 2
    /\ at_tick[1] = IDLE
    /\ ran[1]
    /\ task_state[1] = DONE
    /\ task_state[2] = IDLE
    /\ task_state[0] = DONE

----------------------------------------------------------------------------
(* The music body and the refresh body of one iteration *)

\* C17 as stated: in an iteration in which the music body and the refresh
\* body both run, the music body has read the wind speed and the amplitude
\* that this iteration's refresh stores.
C17_RefreshFirst ==
    [][(pc = "task3" /\ ran[2] /\ ran'[3] /\ pc' = "tick")
          => music_read = <<weather'.speed, note_amplitude'>>]_vars

\* C17: the music task is evaluated before the refresh task.  When the music
\* body has run in an iteration, the refresh body of that iteration has not
\* run yet, and the music body has read the wind speed and the amplitude
\* stored before this iteration's refresh.
C17_MusicFirst ==
    (pc = "task3" /\ ran[2])
        => /\ ~ran[3]
           /\ music_read = <<weather.speed, note_amplitude>>

\* the music body has run and the refresh body is about to run in the same
\* iteration (the first, or a later one on the refresh task's timestamp)
C17_Witness ==
    /\ pc = "task3"
    /\ ran[2]
    /\ music_read = <<weather.speed, note_amplitude>>
    /\ \/ task_state[3] = FIRST_RUN
       \/ task_state[3] = IDLE /\ current_time = TASK_3_OFFSET

----------------------------------------------------------------------------
(* first_run *)

\* C18: a task that has been evaluated in the first iteration, and every
\* task at any point of a later iteration, is idle or done and not in
\* first_run, whatever the clock does (forward steps, standing still, steps
\* back after a time sync).
C18_FirstRunInitialOnly ==
    \A i \in Tasks :
        (After(i) \/ (InLoop /\ iters >= 2))
            => (task_state[i] # FIRST_RUN /\ task_state[i] \in {IDLE, DONE})

\* a later iteration has ended after the timestamp stepped back
C18_Witness ==
    /\ pc = "tick"
    /\ iters >= 2
    /\ ~monotone
    /\ \E i, j \in Tasks : task_state[i] = IDLE /\ task_state[j] = DONE

----------------------------------------------------------------------------
(* What follows the stored wind speed *)

\* C19: at the start of every iteration note_amplitude is the amplitude
\* mapping (0.6 + 0.004 s, s clamped to [0, 100]) of the stored wind speed s,
\* after any ticks and any successful or failed refreshes; and a music body
\* that has run has struck with the amplitude of the wind speed it read,
\* which is the stored one.
C19_AmplitudeTracks ==
    /\ pc = "tick"
         => note_amplitude = 600 + 4 * Max(0, Min(100, weather.speed))
    /\ (pc = "task3" /\ ran[2])
         => /\ music_read[1] = weather.speed
            /\ music_read[2] = 600 + 4 * Max(0, Min(100, music_read[1]))

\* an iteration after the first starts after a refresh whose fetch failed,
\* the stored speed 60 and the amplitude 0.84 kept
C19_Witness ==
    /\ pc = "tick"
    /\ iters >= 2
    /\ ran[3]
    /\ last_fetch = "fail"
    /\ weather.speed = 60
    /\ note_amplitude = 840

\* C20: from the end of the first iteration on, at the start of every
\* iteration with a stored wind speed s >= 0 the pixel, like wind_speed_color,
\* is the colour of the table entry whose interval [minimum, next minimum)
\* holds s, after any ticks and any successful or failed refreshes; and from
\* the end of start-up until task 3 has first run its body the pixel is
\* cleared (0x000000).
C20_IndicatorTracks ==
    /\ (pc = "tick" /\ iters >= 1 /\ weather.speed >= 0)
         => /\ \E k \in 1..Len(NOAA) :
                  /\ NOAA[k][1] <= weather.speed
                  /\ k < Len(NOAA) => weather.speed < NOAA[k + 1][1]
                  /\ pixel = NOAA[k][2]
            /\ wind_speed_color = pixel
    /\ (InLoop /\ task_state[3] = FIRST_RUN) => pixel = 0

\* an iteration after the first starts after a refresh whose fetch failed,
\* the stored speed 47 and the tenth colour kept
C20_Witness ==
    /\ pc = "tick"
    /\ iters >= 2
    /\ ran[3]
    /\ last_fetch = "fail"
    /\ weather.speed = 47
    /\ pixel = NOAA[10][2]

====
